---- MODULE Spec2Model ----
(***************************************************************************)
(* Model of dbsake.core.mysql.frm.mysqltypes: the decoder of column        *)
(* defaults (unpack_default and the unpack_type_* routines).               *)
(*                                                                         *)
(* A column context is a record                                            *)
(*   [type_code, flags, length, labels, unireg_check, charset]             *)
(* flags is the integer pack flag word; type_code and unireg_check are the *)
(* lower-case / upper-case enum names the code dispatches on.  The default *)
(* buffer is a sequence of bytes read at a 0-based cursor; text is a TLA+  *)
(* string.                                                                 *)
(***************************************************************************)
EXTENDS Integers, Sequences, FiniteSets, TLC

(* ------------------------------ bounds --------------------------------- *)
\* columns decoded in one row traversal
MaxCols == 2
\* bytes in the row's default buffer
BufLen == 16

(* ------------------- constants of the constants module ----------------- *)
MAX_TIME_WIDTH == 10
MAX_DATETIME_WIDTH == 19
DEC_SHIFT == 8
MAX_DEC == 31
FLAG_DECIMAL == 1
FLAG_ZEROFILL == 4
FLAG_NO_DEFAULT == 16384
FLAG_MAYBE_NULL == 32768

NOT_FIXED_DEC == 31
DIG_PER_DEC1 == 9
DIGITS_TO_BYTES == <<0, 1, 1, 2, 2, 3, 3, 4, 4, 4>>
TIME_HIRES_BYTES == <<3, 4, 4, 5, 5, 5, 6>>

(* ----------------------------- flags ----------------------------------- *)
\* context.flags.NAME: the bit of the flag word
HasFlag(flags, bit) == (flags \div bit) % 2 = 1

f_decimals(flags) == (flags \div (2 ^ DEC_SHIFT)) % (MAX_DEC + 1)

(* ------------------------- byte primitives ----------------------------- *)
\* byte at 0-based offset i of the buffer (0 past the end: the callers
\* below never keep a result that read past the end)
Rd(buf, i) == IF i + 1 \in DOMAIN buf THEN buf[i + 1] ELSE 0

\* defaults.read(n) at cursor pos
Read(buf, pos, n) == [k \in 1..n |-> Rd(buf, pos + k - 1)]

RECURSIVE BE(_)
\* unsigned big-endian value of a byte string (at most 3 bytes here)
BE(bytes) ==
  IF Len(bytes) = 0 THEN 0
  ELSE BE(SubSeq(bytes, 1, Len(bytes) - 1)) * 256 + bytes[Len(bytes)]

RECURSIVE LE(_)
\* unsigned little-endian value of a byte string (at most 3 bytes here)
LE(bytes) ==
  IF Len(bytes) = 0 THEN 0
  ELSE bytes[1] + 256 * LE(Tail(bytes))

\* struct '>i': signed 32-bit big-endian of exactly 4 bytes
SInt32BE(b) ==
  (IF b[1] >= 128 THEN b[1] - 256 ELSE b[1]) * 16777216
    + b[2] * 65536 + b[3] * 256 + b[4]

\* ByteReader.sint32(endian="<")
SInt32LE(b) == SInt32BE(<<b[4], b[3], b[2], b[1]>>)

\* str() of the unsigned 32-bit big-endian value of 4 bytes; a value of
\* 2^31 or more is split as 2^31 + rest so that every step fits 32 bits
UStr32BE(b) ==
  LET rest == ((b[1] % 128) * 16777216) + b[2] * 65536 + b[3] * 256 + b[4]
      low == (rest % 10) + 8
  IN  IF b[1] < 128 THEN ToString(rest)
      ELSE ToString(rest \div 10 + 214748364 + low \div 10) \o ToString(low % 10)

\* ByteReader.uintN() with its default byte order (little-endian)
ReaderUInt(bytes) == LE(bytes)

\* bit i (0 = least significant) of a little-endian byte string
BitLE(bytes, i) ==
  IF (i \div 8) + 1 \in DOMAIN bytes
  THEN (bytes[(i \div 8) + 1] \div (2 ^ (i % 8))) % 2 = 1
  ELSE FALSE

(* --------------------------- text helpers ------------------------------ *)
RECURSIVE Rep(_, _)
\* ch * n
Rep(ch, n) == IF n <= 0 THEN "" ELSE ch \o Rep(ch, n - 1)

\* s.zfill(w): zeros go after a leading sign
ZFill(s, w) ==
  IF Len(s) > 0 /\ SubSeq(s, 1, 1) = "-"
  THEN "-" \o Rep("0", w - Len(s)) \o SubSeq(s, 2, Len(s))
  ELSE Rep("0", w - Len(s)) \o s

\* '{0:4}': right-aligned in a field of w
PadLeft(s, w) == Rep(" ", w - Len(s)) \o s

RECURSIVE LStrip0(_)
\* s.lstrip('0')
LStrip0(s) ==
  IF Len(s) > 0 /\ SubSeq(s, 1, 1) = "0" THEN LStrip0(SubSeq(s, 2, Len(s))) ELSE s

\* str(i)
Str(i) == ToString(i)

\* '%02d' % n
Fmt02(n) == ZFill(Str(n), 2)

Quote(s) == "'" \o s \o "'"

RECURSIVE Hex(_)
\* stand-in for the text of a value whose formatting is not modelled
\* (floating point, 32/64-bit integers, charset decoding): the bytes read
Hex(bytes) ==
  IF Len(bytes) = 0 THEN ""
  ELSE ZFill(Str(Head(bytes)), 3) \o Hex(Tail(bytes))

RawText(tag, bytes) == Quote(tag \o ":" \o Hex(bytes))

RECURSIVE Join(_)
\* ','.join(seq)
Join(seq) ==
  IF Len(seq) = 0 THEN ""
  ELSE IF Len(seq) = 1 THEN seq[1]
  ELSE seq[1] \o "," \o Join(Tail(seq))

(* ------------------------- routine outcomes ---------------------------- *)
\* a routine returns a literal or raises; n is the number of bytes it has
\* read from the default buffer when it does
Lit(text, n) == [out |-> "value", text |-> text, n |-> n]
Raise(exc, n) == [out |-> "raise", text |-> exc, n |-> n]
NoDefault == [out |-> "None", text |-> "", n |-> 0]

(* ------------------ decimal (exact precision) types -------------------- *)
\* legacy DECIMAL: the ASCII text of the declared length
unpack_type_decimal(buf, pos, ctx) ==
  LET data == Read(buf, pos, ctx.length)
  IN  IF \E k \in DOMAIN data : data[k] >= 128
      THEN Raise("UnicodeDecodeError", ctx.length)
      ELSE Lit(RawText("ascii", data), ctx.length)

\* operator.invert on a signed 32-bit value: ~g
Invert(g) == IF g >= 0 THEN -g - 1 ELSE -(g + 1)

RECURSIVE GroupDigits(_, _)
\* struct.unpack('>' + 'i'*k, data), each group inverted when asked, then
\* ''.join(str(i) for i in groups)
GroupDigits(data, invert) ==
  IF Len(data) = 0 THEN ""
  ELSE LET g == SInt32BE(SubSeq(data, 1, 4))
       IN  Str(IF invert THEN Invert(g) ELSE g)
             \o GroupDigits(SubSeq(data, 5, Len(data)), invert)

\* the trailing len % 4 bytes are widened to a 4-byte word
_decode_decimal(data, invert) ==
  LET modcheck == Len(data) % 4
      pad_char == IF invert THEN 255 ELSE 0
      padded ==
        IF modcheck # 0
        THEN SubSeq(data, 1, Len(data) - modcheck)
               \o [k \in 1..(4 - modcheck) |-> pad_char]
               \o SubSeq(data, Len(data) - modcheck + 1, Len(data))
        ELSE data
  IN  GroupDigits(padded, invert)

\* precision from length and scale (the columns of the model keep
\* precision >= scale, so both byte lengths are >= 0)
DecimalPrecision(length, scale) ==
  LET p1 == IF scale # 0 THEN length - 1 ELSE length
  IN  IF p1 # 0 THEN p1 - 1 ELSE p1

unpack_type_newdecimal(buf, pos, ctx) ==
  LET scale == f_decimals(ctx.flags)
      precision == DecimalPrecision(ctx.length, scale)
      int_length == ((precision - scale) \div 9) * 4
                      + DIGITS_TO_BYTES[((precision - scale) % 9) + 1]
      frac_length == (scale \div 9) * 4 + DIGITS_TO_BYTES[(scale % 9) + 1]
      n == int_length + frac_length
      raw == Read(buf, pos, n)
  IN  IF n = 0 THEN Raise("struct.error", 0)
      ELSE
        LET first == raw[1]
            neg == (first \div 128) % 2 = 0
            sign == IF neg THEN "-" ELSE ""
            flipped == IF first >= 128 THEN first - 128 ELSE first + 128
            data == <<flipped>> \o Tail(raw)
            stripped == LStrip0(_decode_decimal(SubSeq(data, 1, int_length), neg))
            integer_part ==
              IF int_length # 0
              THEN sign \o (IF stripped = "" THEN "0" ELSE stripped)
              ELSE sign \o "0"
            fractional_part ==
              _decode_decimal(SubSeq(data, n - frac_length + 1, n), neg)
        IN  Lit(Quote(IF frac_length # 0
                      THEN integer_part \o "." \o ZFill(fractional_part, scale)
                      ELSE integer_part), n)

(* --------------------------- integer types ----------------------------- *)
\* "'%d'" % value
_format_integer_default(value) == Quote(Str(value))

\* signed value of an unsigned w-bit one
Signed(u, w) == IF u >= 2 ^ (w - 1) THEN u - 2 ^ w ELSE u

unpack_type_tiny(buf, pos, ctx) ==
  LET u == ReaderUInt(Read(buf, pos, 1))
  IN  Lit(_format_integer_default(
            IF HasFlag(ctx.flags, FLAG_DECIMAL) THEN Signed(u, 8) ELSE u), 1)

unpack_type_short(buf, pos, ctx) ==
  LET u == ReaderUInt(Read(buf, pos, 2))
  IN  Lit(_format_integer_default(
            IF HasFlag(ctx.flags, FLAG_DECIMAL) THEN Signed(u, 16) ELSE u), 2)

unpack_type_int24(buf, pos, ctx) ==
  LET u == ReaderUInt(Read(buf, pos, 3))
  IN  Lit(_format_integer_default(
            IF HasFlag(ctx.flags, FLAG_DECIMAL) THEN Signed(u, 24) ELSE u), 3)

unpack_type_long(buf, pos, ctx) ==
  LET b == Read(buf, pos, 4)
  IN  Lit(IF HasFlag(ctx.flags, FLAG_DECIMAL)
          THEN _format_integer_default(SInt32LE(b))
          ELSE Quote(UStr32BE(<<b[4], b[3], b[2], b[1]>>)), 4)

\* a 64-bit value: the bytes are read, the digits are not modelled
unpack_type_longlong(buf, pos, ctx) ==
  Lit(RawText(IF HasFlag(ctx.flags, FLAG_DECIMAL) THEN "sint64" ELSE "uint64",
              Read(buf, pos, 8)), 8)

(* ------------------------ floating point types ------------------------- *)
\* defaults.float() / defaults.double(): 4 / 8 bytes, formatting not modelled
unpack_type_float(buf, pos, ctx) == Lit(RawText("float", Read(buf, pos, 4)), 4)

unpack_type_double(buf, pos, ctx) == Lit(RawText("double", Read(buf, pos, 8)), 8)

(* ------------------------------ null type ------------------------------ *)
\* "raise NotImplemented": NotImplemented is no exception class, so the
\* raise statement itself fails with TypeError
unpack_type_null(buf, pos, ctx) == Raise("TypeError", 0)

(* --------------------------- date/time types --------------------------- *)
\* scale = context.length - constants.MAX_TIME_WIDTH - 1
TimeScale(ctx) == ctx.length - MAX_TIME_WIDTH - 1

\* scale = context.length - constants.MAX_DATETIME_WIDTH - 1
DatetimeScale(ctx) == ctx.length - MAX_DATETIME_WIDTH - 1

\* MariaDB TIME(N): 3..6 bytes by scale, the value is not modelled
_unpack_type_time_hires(buf, pos, ctx, scale) ==
  IF scale + 1 \notin DOMAIN TIME_HIRES_BYTES
  THEN Raise("IndexError", 0)
  ELSE LET pack_length == TIME_HIRES_BYTES[scale + 1]
       IN  Lit(RawText("time_hires", Read(buf, pos, pack_length)), pack_length)

unpack_type_time(buf, pos, ctx) ==
  LET scale == TimeScale(ctx)
      value == ReaderUInt(Read(buf, pos, 3))
      hour == value \div 10000
      minute == (value \div 100) % 100
      second == value % 100
  IN  IF scale > 0
      THEN _unpack_type_time_hires(buf, pos, ctx, scale)
      ELSE Lit(Quote(Fmt02(hour) \o ":" \o Fmt02(minute) \o ":" \o Fmt02(second)), 3)

\* the fraction of a TIME2 value: DIGITS_TO_BYTES[scale] bytes, widened to
\* a signed 32-bit word, its magnitude zero-filled and cut to scale digits
Time2Fraction(data, is_neg, scale) ==
  LET pad == IF Len(data) % 4 # 0 THEN 4 - (Len(data) % 4) ELSE 0
      word == [k \in 1..pad |-> IF is_neg THEN 255 ELSE 0] \o data
      raw == SInt32BE(word)
      frac_part == ZFill(Str(IF raw < 0 THEN -raw ELSE raw), scale)
  IN  IF Len(frac_part) > scale THEN SubSeq(frac_part, 1, scale) ELSE frac_part

unpack_type_time2(buf, pos, ctx) ==
  LET data == Read(buf, pos, 3)
      first == data[1]
      is_neg == (first \div 128) % 2 = 0
      \* b'\x00' + pack('b', first - 0x80) + data[1:], read as '>i'
      word == ((first + 128) % 256) * 65536 + data[2] * 256 + data[3]
      value == IF is_neg THEN -word - 1 ELSE word
      hour == (value \div 4096) % 1024
      minute == (value \div 64) % 64
      second == value % 64
      hms == Fmt02(hour) \o ":" \o Fmt02(minute) \o ":" \o Fmt02(second)
      scale == TimeScale(ctx)
      sign == IF is_neg THEN "-" ELSE ""
  IN  IF scale > 0
      THEN IF scale + 1 \notin DOMAIN DIGITS_TO_BYTES
           THEN Raise("IndexError", 3)
           ELSE LET nbytes == DIGITS_TO_BYTES[scale + 1]
                    frac == Time2Fraction(Read(buf, pos + 3, nbytes), is_neg, scale)
                IN  Lit(Quote(sign \o hms \o "." \o frac), 3 + nbytes)
      ELSE Lit(Quote(sign \o hms), 3)

unpack_type_year(buf, pos, ctx) ==
  LET value == ReaderUInt(Read(buf, pos, 1))
  IN  Lit(IF value = 0 THEN "'0000'" ELSE Quote(Str(1900 + value)), 1)

\* pre 4.1 DATE
unpack_type_date(buf, pos, ctx) == Raise("NotImplementedError", 0)

unpack_type_newdate(buf, pos, ctx) ==
  LET value == ReaderUInt(Read(buf, pos, 3))
      year == value \div 512
      month == (value \div 32) % 16
      day == value % 32
  IN  Lit(Quote(PadLeft(Str(year), 4) \o "-" \o Fmt02(month) \o "-" \o Fmt02(day)), 3)

\* datetime.datetime.fromtimestamp(epoch).strftime('%Y-%m-%d %H:%M:%S'),
\* with the local time zone taken to be UTC
FormatEpoch(epoch) ==
  LET days == epoch \div 86400
      secs == epoch % 86400
      z == days + 719468
      era == z \div 146097
      doe == z - era * 146097
      yoe == (doe - doe \div 1460 + doe \div 36524 - doe \div 146096) \div 365
      doy == doe - (365 * yoe + yoe \div 4 - yoe \div 100)
      mp == (5 * doy + 2) \div 153
      d == doy - (153 * mp + 2) \div 5 + 1
      m == IF mp < 10 THEN mp + 3 ELSE mp - 9
      y == yoe + era * 400 + (IF m <= 2 THEN 1 ELSE 0)
  IN  ZFill(Str(y), 4) \o "-" \o Fmt02(m) \o "-" \o Fmt02(d) \o " "
        \o Fmt02(secs \div 3600) \o ":" \o Fmt02((secs \div 60) % 60)
        \o ":" \o Fmt02(secs % 60)

\* the literal of an epoch: zero is the zero date
EpochText(epoch) ==
  IF epoch # 0 THEN FormatEpoch(epoch) ELSE "0000-00-00 00:00:00"

\* the text a timestamp routine returns for the column's unireg_check
TimestampText(unireg_check, value, scale_str) ==
  IF unireg_check = "TIMESTAMP_DN_FIELD"
  THEN "CURRENT_TIMESTAMP" \o scale_str
  ELSE IF unireg_check = "TIMESTAMP_UN_FIELD"
  THEN Quote(value) \o " ON UPDATE CURRENT_TIMESTAMP" \o scale_str
  ELSE IF unireg_check = "TIMESTAMP_DNUN_FIELD"
  THEN "CURRENT_TIMESTAMP" \o scale_str \o " ON UPDATE CURRENT_TIMESTAMP" \o scale_str
  ELSE Quote(value)

unpack_type_timestamp2(buf, pos, ctx) ==
  LET epoch == SInt32BE(Read(buf, pos, 4))
      value == EpochText(epoch)
      scale == DatetimeScale(ctx)
      scale_str == IF scale > 0 THEN "(" \o Str(scale) \o ")" ELSE ""
  IN  IF scale > 0
      THEN IF scale + 1 \notin DOMAIN DIGITS_TO_BYTES
           THEN Raise("IndexError", 4)
           ELSE LET nbytes == DIGITS_TO_BYTES[scale + 1]
                    fractional == BE(Read(buf, pos + 4, nbytes))
                IN  IF nbytes \in {1, 2, 3}
                    THEN Lit(TimestampText(ctx.unireg_check,
                               value \o "." \o ZFill(Str(fractional), scale),
                               scale_str), 4 + nbytes)
                    ELSE Raise("ValueError", 4)
      ELSE Lit(TimestampText(ctx.unireg_check, value, scale_str), 4)

\* a mutation of unpack_type_timestamp: the symbolic default is returned
\* before the epoch is read
unpack_type_timestamp_early(buf, pos, ctx) ==
  IF ctx.unireg_check \in {"TIMESTAMP_DN_FIELD", "TIMESTAMP_DNUN_FIELD"}
  THEN Lit(TimestampText(ctx.unireg_check, "", ""), 0)
  ELSE Lit(TimestampText(ctx.unireg_check,
                         EpochText(SInt32LE(Read(buf, pos, 4))), ""), 4)

unpack_type_timestamp(buf, pos, ctx) ==
  LET scale == DatetimeScale(ctx)
      epoch == SInt32LE(Read(buf, pos, 4))
  IN  IF scale > 0
      THEN unpack_type_timestamp2(buf, pos, ctx)
      ELSE Lit(TimestampText(ctx.unireg_check, EpochText(epoch), ""), 4)

\* MariaDB DATETIME(N): 8 bytes, the value is not modelled
_unpack_type_datetime_hires(buf, pos, ctx, scale) ==
  Lit(RawText("datetime_hires", Read(buf, pos, 8)), 8)

\* legacy DATETIME: 8 bytes, the value is not modelled
unpack_type_datetime(buf, pos, ctx) ==
  LET scale == DatetimeScale(ctx)
  IN  IF scale > 0
      THEN _unpack_type_datetime_hires(buf, pos, ctx, scale)
      ELSE Lit(RawText("datetime", Read(buf, pos, 8)), 8)

\* the fraction of a DATETIME2 value: the bytes zero-padded to '>I', the
\* number zero-filled and cut to scale digits
Datetime2Fraction(data, scale) ==
  LET word == [k \in 1..(4 - Len(data)) |-> 0] \o data
      microseconds == ZFill(UStr32BE(word), scale)
  IN  IF Len(microseconds) > scale
      THEN SubSeq(microseconds, 1, scale)
      ELSE microseconds

unpack_type_datetime2(buf, pos, ctx) ==
  LET b == Read(buf, pos, 5)
      \* ymdhms = uint40(">"): ymd = ymdhms >> 17, hms = ymdhms % (1 << 17)
      ymd == b[1] * 32768 + b[2] * 128 + (b[3] \div 2)
      ym == (ymd \div 32) % 131072
      day == ymd % 32
      month == ym % 13
      year == ym \div 13
      hms == (b[3] % 2) * 65536 + b[4] * 256 + b[5]
      second == hms % 64
      minute == (hms \div 64) % 64
      hour == hms \div 4096
      value == Str(year) \o "-" \o Fmt02(month) \o "-" \o Fmt02(day) \o " "
                 \o Fmt02(hour) \o ":" \o Fmt02(minute) \o ":" \o Fmt02(second)
      scale == DatetimeScale(ctx)
  IN  IF scale > 0
      THEN IF scale + 1 \notin DOMAIN DIGITS_TO_BYTES
           THEN Raise("IndexError", 5)
           ELSE LET nbytes == DIGITS_TO_BYTES[scale + 1]
                    frac == Datetime2Fraction(Read(buf, pos + 5, nbytes), scale)
                IN  Lit(Quote(value \o "." \o frac), 5 + nbytes)
      ELSE Lit(Quote(value), 5)

(* ----------------------------- string types --------------------------- *)
\* the charset decoding of the bytes is not modelled: the text stands for
\* the bytes read (latin1 decodes every byte string)
unpack_type_varchar(buf, pos, ctx) ==
  LET prefix == IF ctx.length < 256 THEN 1 ELSE 2
      length == ReaderUInt(Read(buf, pos, prefix))
      data == Read(buf, pos + prefix, length)
  IN  IF pos + prefix + length > Len(buf)
      THEN Lit("", prefix + length)   \* past the end: no row keeps this
      ELSE Lit(RawText(ctx.charset, data), prefix + length)

\* the 4.1 VARCHAR(N): exactly the declared length
unpack_type_var_string(buf, pos, ctx) ==
  Lit(RawText(ctx.charset, Read(buf, pos, ctx.length)), ctx.length)

\* CHAR(N): exactly the declared length
unpack_type_string(buf, pos, ctx) ==
  Lit(RawText(ctx.charset, Read(buf, pos, ctx.length)), ctx.length)

RECURSIVE Bin(_, _)
\* the w low bits of byte value v, most significant first
Bin(v, w) ==
  IF w = 0 THEN "" ELSE Bin(v \div 2, w - 1) \o (IF v % 2 = 1 THEN "1" ELSE "0")

RECURSIVE BinBytes(_)
BinBytes(bytes) ==
  IF Len(bytes) = 0 THEN "" ELSE Bin(Head(bytes), 8) \o BinBytes(Tail(bytes))

\* BIT(m): bin(value)[2:] of the big-endian value
unpack_type_bit(buf, pos, ctx) ==
  LET nbytes == (ctx.length + 7) \div 8
      bits == LStrip0(BinBytes(Read(buf, pos, nbytes)))
  IN  IF nbytes > 8 THEN Raise("struct.error", nbytes)
      ELSE Lit("b" \o Quote(IF bits = "" THEN "0" ELSE bits), nbytes)

(* ------------------------------- ENUM ---------------------------------- *)
\* labels[offset] with Python's indexing: a negative offset counts from
\* the end, an offset outside -len..len-1 is an IndexError
PyIndex(labels, offset) ==
  IF 0 <= offset /\ offset < Len(labels) THEN labels[offset + 1]
  ELSE labels[Len(labels) + offset + 1]

PyIndexOk(labels, offset) == -Len(labels) <= offset /\ offset < Len(labels)

unpack_type_enum(buf, pos, ctx) ==
  LET labels == ctx.labels
      width == IF Len(labels) < 256 THEN 1 ELSE 2
      offset == ReaderUInt(Read(buf, pos, width)) - 1
  IN  IF PyIndexOk(labels, offset)
      THEN Lit(Quote(PyIndex(labels, offset)), width)
      ELSE Lit("''", width)

(* -------------------------------- SET ---------------------------------- *)
RECURSIVE SetNames(_, _, _)
\* the labels whose bit is set, from label index bit + 1 on
SetNames(labels, value, bit) ==
  IF bit >= Len(labels) THEN <<>>
  ELSE (IF BitLE(value, bit) THEN <<labels[bit + 1]>> ELSE <<>>)
         \o SetNames(labels, value, bit + 1)

\* a mutation of unpack_type_set: the width is not widened to 8 bytes
unpack_type_set_narrow(buf, pos, ctx) ==
  LET n_bytes == (Len(ctx.labels) + 7) \div 8
  IN  IF n_bytes \in {1, 2, 3, 4, 8}
      THEN Lit(Quote(Join(SetNames(ctx.labels, Read(buf, pos, n_bytes), 0))),
               n_bytes)
      ELSE Raise("ValueError", 0)

unpack_type_set(buf, pos, ctx) ==
  LET elt_count == Len(ctx.labels)
      n0 == (elt_count + 7) \div 8
      n_bytes == IF n0 > 4 THEN 8 ELSE n0
      value == Read(buf, pos, n_bytes)
  IN  IF n_bytes \in {1, 2, 3, 4, 8}
      THEN Lit(Quote(Join(SetNames(ctx.labels, value, 0))), n_bytes)
      ELSE Raise("ValueError", 0)

(* ------------------ handlers left unimplemented ------------------------ *)
unpack_type_long_blob(buf, pos, ctx) == Raise("NotImplementedError", 0)

unpack_type_tiny_blob(buf, pos, ctx) == unpack_type_long_blob(buf, pos, ctx)

unpack_type_medium_blob(buf, pos, ctx) == unpack_type_long_blob(buf, pos, ctx)

unpack_type_blob(buf, pos, ctx) == unpack_type_long_blob(buf, pos, ctx)

unpack_type_geometry(buf, pos, ctx) == Raise("NotImplementedError", 0)

(* ------------------------------ dispatch ------------------------------- *)
\* the names for which globals() holds an unpack_type_<name>
UnpackNames ==
  {"decimal", "newdecimal", "tiny", "short", "int24", "long", "longlong",
   "float", "double", "null", "time", "time2", "year", "date", "newdate",
   "timestamp", "timestamp2", "datetime", "datetime2", "varchar",
   "var_string", "string", "bit", "enum", "set", "long_blob", "tiny_blob",
   "medium_blob", "blob", "geometry"}

\* globals()['unpack_type_{0}'.format(type_name)](defaults, context)
Dispatch(buf, pos, ctx) ==
  CASE ctx.type_code = "decimal" -> unpack_type_decimal(buf, pos, ctx)
    [] ctx.type_code = "newdecimal" -> unpack_type_newdecimal(buf, pos, ctx)
    [] ctx.type_code = "tiny" -> unpack_type_tiny(buf, pos, ctx)
    [] ctx.type_code = "short" -> unpack_type_short(buf, pos, ctx)
    [] ctx.type_code = "int24" -> unpack_type_int24(buf, pos, ctx)
    [] ctx.type_code = "long" -> unpack_type_long(buf, pos, ctx)
    [] ctx.type_code = "longlong" -> unpack_type_longlong(buf, pos, ctx)
    [] ctx.type_code = "float" -> unpack_type_float(buf, pos, ctx)
    [] ctx.type_code = "double" -> unpack_type_double(buf, pos, ctx)
    [] ctx.type_code = "null" -> unpack_type_null(buf, pos, ctx)
    [] ctx.type_code = "time" -> unpack_type_time(buf, pos, ctx)
    [] ctx.type_code = "time2" -> unpack_type_time2(buf, pos, ctx)
    [] ctx.type_code = "year" -> unpack_type_year(buf, pos, ctx)
    [] ctx.type_code = "date" -> unpack_type_date(buf, pos, ctx)
    [] ctx.type_code = "newdate" -> unpack_type_newdate(buf, pos, ctx)
    [] ctx.type_code = "timestamp" -> unpack_type_timestamp(buf, pos, ctx)
    [] ctx.type_code = "timestamp2" -> unpack_type_timestamp2(buf, pos, ctx)
    [] ctx.type_code = "datetime" -> unpack_type_datetime(buf, pos, ctx)
    [] ctx.type_code = "datetime2" -> unpack_type_datetime2(buf, pos, ctx)
    [] ctx.type_code = "varchar" -> unpack_type_varchar(buf, pos, ctx)
    [] ctx.type_code = "var_string" -> unpack_type_var_string(buf, pos, ctx)
    [] ctx.type_code = "string" -> unpack_type_string(buf, pos, ctx)
    [] ctx.type_code = "bit" -> unpack_type_bit(buf, pos, ctx)
    [] ctx.type_code = "enum" -> unpack_type_enum(buf, pos, ctx)
    [] ctx.type_code = "set" -> unpack_type_set(buf, pos, ctx)
    [] ctx.type_code = "long_blob" -> unpack_type_long_blob(buf, pos, ctx)
    [] ctx.type_code = "tiny_blob" -> unpack_type_tiny_blob(buf, pos, ctx)
    [] ctx.type_code = "medium_blob" -> unpack_type_medium_blob(buf, pos, ctx)
    [] ctx.type_code = "blob" -> unpack_type_blob(buf, pos, ctx)
    [] ctx.type_code = "geometry" -> unpack_type_geometry(buf, pos, ctx)

\* a mutation of NullBitSet: the bit is counted from the most significant
NullBitSet_MsbFirst(null_map, null_bit) ==
  (null_map[(null_bit \div 8) + 1] \div (2 ^ (7 - (null_bit % 8)))) % 2 = 1

\* null_byte & (1 << null_bit): bit null_bit % 8 of byte null_bit // 8
NullBitSet(null_map, null_bit) ==
  (null_map[(null_bit \div 8) + 1] \div (2 ^ (null_bit % 8))) % 2 = 1

\* no_default_value or is_auto_increment: return None at once
ShortCircuit(ctx) ==
  HasFlag(ctx.flags, FLAG_NO_DEFAULT) \/ ctx.unireg_check = "NEXT_NUMBER"

\* a mutation of ReturnsNull: the blob marker is not looked at
ReturnsNull_AnyUnireg(ctx, null_map, null_bit) ==
  HasFlag(ctx.flags, FLAG_MAYBE_NULL) /\ NullBitSet(null_map, null_bit)

\* the MAYBE_NULL branch returns 'NULL'
ReturnsNull(ctx, null_map, null_bit) ==
  /\ HasFlag(ctx.flags, FLAG_MAYBE_NULL)
  /\ NullBitSet(null_map, null_bit)
  /\ ctx.unireg_check # "BLOB_FIELD"

\* a mutation of unpack_default: the null-bit cursor advances before the
\* short-circuit, for every nullable column
unpack_default_bit_first(buf, pos, ctx, null_map, null_bit) ==
  LET bit_after == IF HasFlag(ctx.flags, FLAG_MAYBE_NULL) THEN null_bit + 1 ELSE null_bit
      done(r, dispatch, routine) ==
        [out |-> r.out, text |-> r.text, n |-> r.n, null_bit |-> bit_after,
         dispatch |-> dispatch, routine |-> routine]
  IN  IF ShortCircuit(ctx) THEN done(NoDefault, FALSE, "")
      ELSE IF ReturnsNull(ctx, null_map, null_bit) THEN done(Lit("NULL", 0), FALSE, "")
      ELSE IF ctx.unireg_check = "BLOB_FIELD" THEN done(NoDefault, FALSE, "")
      ELSE IF ctx.type_code \notin UnpackNames THEN done(Raise("LookupError", 0), TRUE, "")
      ELSE LET r == Dispatch(buf, pos, ctx)
           IN IF r.out = "raise" /\ r.text = "NotImplementedError"
              THEN done(Raise("LookupError", r.n), TRUE, ctx.type_code)
              ELSE done(r, TRUE, ctx.type_code)

\* unpack_default(defaults, context): the outcome
\*   [out, text, n, null_bit, dispatch, routine]
\* out/text/n as a routine's; null_bit the cursor afterwards; dispatch
\* whether the call got as far as looking up the type's routine; routine
\* the name of the unpack routine that was called ("" when none was)
unpack_default(buf, pos, ctx, null_map, null_bit) ==
  LET bit_after ==
        IF HasFlag(ctx.flags, FLAG_MAYBE_NULL) THEN null_bit + 1 ELSE null_bit
      done(r, nb, dispatch, routine) ==
        [out |-> r.out, text |-> r.text, n |-> r.n, null_bit |-> nb,
         dispatch |-> dispatch, routine |-> routine]
  IN  IF ShortCircuit(ctx)
      THEN done(NoDefault, null_bit, FALSE, "")
      ELSE IF ReturnsNull(ctx, null_map, null_bit)
      THEN done(Lit("NULL", 0), bit_after, FALSE, "")
      ELSE IF ctx.unireg_check = "BLOB_FIELD"
      THEN done(NoDefault, bit_after, FALSE, "")
      ELSE IF ctx.type_code \notin UnpackNames
      THEN done(Raise("LookupError", 0), bit_after, TRUE, "")
      ELSE LET r == Dispatch(buf, pos, ctx)
           IN  IF r.out = "raise" /\ r.text = "NotImplementedError"
               THEN done(Raise("LookupError", r.n), bit_after, TRUE, ctx.type_code)
               ELSE done(r, bit_after, TRUE, ctx.type_code)

(* ----------------------- the columns of the model ---------------------- *)
\* constants.Utype names the code tests
Utypes ==
  {"NONE", "NEXT_NUMBER", "BLOB_FIELD", "TIMESTAMP_DN_FIELD",
   "TIMESTAMP_UN_FIELD", "TIMESTAMP_DNUN_FIELD"}

TimestampUtypes ==
  {"TIMESTAMP_DN_FIELD", "TIMESTAMP_UN_FIELD", "TIMESTAMP_DNUN_FIELD"}

TimestampTypes == {"timestamp", "timestamp2"}

Labels3 == <<"a", "b", "c">>
Labels9 == [i \in 1..9 |-> "s" \o ToString(i)]
Labels256 == [i \in 1..256 |-> "e" \o ToString(i)]

\* a column's type part: type code, length, the type's own flag bits
\* (signedness, decimal scale), labels, charset
TV(t, len, xflags, labels, cs) ==
  [type_code |-> t, length |-> len, xflags |-> xflags, labels |-> labels,
   charset |-> cs]

T0(t, len) == TV(t, len, 0, <<>>, "latin1")

TypeVariants ==
  {T0("decimal", 2),
   TV("newdecimal", 4, 256, <<>>, "latin1"),
   TV("newdecimal", 12, 0, <<>>, "latin1"),
   T0("tiny", 3), TV("tiny", 4, FLAG_DECIMAL, <<>>, "latin1"),
   T0("short", 5), T0("int24", 8),
   T0("long", 10), TV("long", 11, FLAG_DECIMAL, <<>>, "latin1"),
   T0("longlong", 20), T0("float", 12), T0("double", 22),
   T0("null", 0), T0("date", 10), T0("json", 0),
   T0("tiny_blob", 255), T0("blob", 65535), T0("medium_blob", 255),
   T0("long_blob", 255), T0("geometry", 0),
   T0("time", 10), T0("time", 13),
   T0("time2", 11), T0("time2", 14), T0("time2", 17), T0("time2", 18),
   T0("time2", 21),
   T0("year", 4), T0("newdate", 10),
   T0("timestamp", 19), T0("timestamp", 23),
   T0("timestamp2", 20), T0("timestamp2", 23), T0("timestamp2", 26),
   T0("timestamp2", 27), T0("timestamp2", 30),
   T0("datetime", 19), T0("datetime", 22),
   T0("datetime2", 20), T0("datetime2", 23), T0("datetime2", 26),
   T0("datetime2", 27), T0("datetime2", 30),
   T0("varchar", 10), TV("varchar", 300, 0, <<>>, "binary"),
   T0("var_string", 2), TV("string", 3, 0, <<>>, "binary"),
   T0("bit", 1), T0("bit", 9),
   TV("enum", 1, 0, Labels3, "latin1"), TV("enum", 4, 0, Labels256, "latin1"),
   TV("set", 1, 0, Labels3, "latin1"), TV("set", 2, 0, Labels9, "latin1")}

\* a column context: a type variant with the nullable and
\* no-stored-default flags and an unireg_check
Column(tv, u, nl, nd) ==
  [type_code |-> tv.type_code, length |-> tv.length, labels |-> tv.labels,
   charset |-> tv.charset, unireg_check |-> u,
   flags |-> tv.xflags + (IF nl THEN FLAG_MAYBE_NULL ELSE 0)
               + (IF nd THEN FLAG_NO_DEFAULT ELSE 0)]

\* every combination of the two flags and unireg_check over a set of type
\* variants (the timestamp marks on the timestamp types only)
ColumnsOf(variants) ==
  {Column(x[1], x[2], x[3], x[4]) :
     x \in {y \in variants \X Utypes \X BOOLEAN \X BOOLEAN :
              y[2] \in TimestampUtypes => y[1].type_code \in TimestampTypes}}

Columns == ColumnsOf(TypeVariants)

\* the columns of the row traversal: one variant of a few types
RowColumns ==
  ColumnsOf({T0("tiny", 3), T0("varchar", 10), T0("blob", 65535),
             TV("enum", 1, 0, Labels3, "latin1"), T0("timestamp", 19),
             T0("null", 0)})

\* the row's inputs: null bitmaps of two bytes, default buffers, and the
\* null bit of the row's first column
NullMaps == {<<170, 1>>, <<85, 2>>}

Cyc(pat) == [i \in 1..BufLen |-> pat[((i - 1) % Len(pat)) + 1]]

Buffers == {Cyc(<<0>>), Cyc(<<2, 0, 1, 3>>), Cyc(<<128, 0, 1, 200>>)}

StartBits == {0, 7}

(* ----------------------- the row traversal ----------------------------- *)
VARIABLES
  null_map,   \* context.null_map: the row's null bitmap
  defaults,   \* the default buffer
  null_bit,   \* context.null_bit: the null-bit cursor
  pos,        \* the default-buffer cursor
  ncols,      \* unpack_default calls made on this row
  call,       \* the last call: its column, its outcome, the cursors before it
  stored,     \* the column and the text of the value the record's writer
              \* encoded into defaults (NoValue when the bytes are arbitrary)
  first_bit,  \* history: null_bit before the row's first call
  counted     \* history: calls so far on a nullable column that has
              \* neither the no-stored-default flag nor NEXT_NUMBER

vars ==
  <<null_map, defaults, null_bit, pos, ncols, call, stored, first_bit, counted>>

NoCall ==
  [col |-> Column(T0("null", 0), "NONE", FALSE, FALSE),
   out |-> "None", text |-> "", dispatch |-> FALSE, routine |-> "",
   null_bit |-> 0, pos |-> 0]

NoValue == [col |-> NoCall.col, text |-> ""]

Init ==
  /\ stored = NoValue
  /\ null_map \in NullMaps
  /\ defaults \in Buffers
  /\ null_bit \in StartBits
  /\ pos = 0
  /\ ncols = 0
  /\ call = NoCall
  /\ first_bit = null_bit
  /\ counted = 0

\* one unpack_default call on a column out of cols.  The record is well
\* formed: the null map holds the bit of a nullable column and the buffer
\* holds the bytes the routine reads.
UnpackDefault(cols) ==
  /\ \E ctx \in cols :
       /\ null_bit < 8 * Len(null_map)
       /\ LET r == unpack_default(defaults, pos, ctx, null_map, null_bit)
          IN  /\ pos + r.n <= Len(defaults)
              /\ null_bit' = r.null_bit
              /\ pos' = pos + r.n
              /\ call' = [col |-> ctx, out |-> r.out, text |-> r.text,
                          dispatch |-> r.dispatch, routine |-> r.routine,
                          null_bit |-> null_bit, pos |-> pos]
       /\ counted' = counted
            + (IF HasFlag(ctx.flags, FLAG_MAYBE_NULL)
                    /\ ~HasFlag(ctx.flags, FLAG_NO_DEFAULT)
                    /\ ctx.unireg_check # "NEXT_NUMBER"
               THEN 1 ELSE 0)
  /\ ncols' = ncols + 1
  /\ UNCHANGED <<null_map, defaults, stored, first_bit>>

\* the caller decodes the columns of a row in declaration order; a raised
\* error ends the row
RowStep ==
  /\ ncols < MaxCols
  /\ call.out # "raise"
  /\ UnpackDefault(RowColumns)

Next == RowStep

Spec == Init /\ [][Next]_vars

(* ------------- one call, at any cursor position of a row --------------- *)
CallBits == {0, 1, 7, 8, 9, 15}

CallInit ==
  /\ stored = NoValue
  /\ null_map \in NullMaps
  /\ defaults \in Buffers
  /\ null_bit \in CallBits
  /\ pos \in {0, 1}
  /\ ncols = 0
  /\ call = NoCall
  /\ first_bit = null_bit
  /\ counted = 0

OneCall ==
  /\ ncols = 0
  /\ UnpackDefault(Columns)

CallNext == OneCall

SpecCall == CallInit /\ [][CallNext]_vars

(* ============================ type formatter ============================ *)
\* A formatting context has the fields of a column and, for the character
\* set clause, charset as a record [name, maxlen, is_default, collation],
\* table_charset (the name of the table's character set) and subtype_code
\* (the geometry subtype).  A fragment is [out, text] like a routine's
\* outcome without a byte count.
Frag(text) == [out |-> "value", text |-> text]

FragRaise(exc) == [out |-> "raise", text |-> exc]

_format_number(name, context) ==
  name
    \o (IF context.length # 0 THEN "(" \o ToString(context.length) \o ")" ELSE "")
    \o (IF ~HasFlag(context.flags, FLAG_DECIMAL) THEN " unsigned" ELSE "")
    \o (IF HasFlag(context.flags, FLAG_ZEROFILL) THEN " zerofill" ELSE "")

format_type_tiny(context) == _format_number("tinyint", context)

format_type_short(context) == _format_number("smallint", context)

format_type_int24(context) == _format_number("mediumint", context)

format_type_long(context) == _format_number("int", context)

format_type_longlong(context) == _format_number("bigint", context)

format_type_newdecimal(context) ==
  LET scale == f_decimals(context.flags)
      p1 == IF scale # 0 THEN context.length - 1 ELSE context.length
      precision == IF p1 # 0 THEN p1 - 1 ELSE p1
  IN  "decimal(" \o ToString(precision) \o "," \o ToString(scale) \o ")"

format_type_decimal(context) == format_type_newdecimal(context)

_format_real(name, context) ==
  LET decimals == f_decimals(context.flags)
  IN  name
        \o (IF decimals # NOT_FIXED_DEC /\ decimals < NOT_FIXED_DEC
            THEN "(" \o ToString(context.length) \o "," \o ToString(decimals) \o ")"
            ELSE "")
        \o (IF ~HasFlag(context.flags, FLAG_DECIMAL) THEN " unsigned" ELSE "")
        \o (IF HasFlag(context.flags, FLAG_ZEROFILL) THEN " zerofill" ELSE "")

format_type_float(context) == _format_real("float", context)

format_type_double(context) == _format_real("double", context)

_format_charset(context) ==
  (IF context.table_charset # context.charset.name
        /\ context.charset.name # "binary"
   THEN " CHARACTER SET " \o context.charset.name ELSE "")
    \o (IF ~context.charset.is_default
        THEN " COLLATE " \o context.charset.collation ELSE "")

format_type_string(context) ==
  (IF context.charset.name = "binary" THEN "binary" ELSE "char")
    \o "(" \o ToString(context.length \div context.charset.maxlen) \o ")"
    \o _format_charset(context)

format_type_varchar(context) ==
  (IF context.charset.name = "binary" THEN "varbinary" ELSE "varchar")
    \o "(" \o ToString(context.length \div context.charset.maxlen) \o ")"
    \o _format_charset(context)

format_type_var_string(context) == format_type_varchar(context)

RECURSIVE QuotedLabels(_)
\* ','.join("'%s'" % name for name in labels)
QuotedLabels(labels) ==
  IF Len(labels) = 0 THEN ""
  ELSE IF Len(labels) = 1 THEN "'" \o labels[1] \o "'"
  ELSE "'" \o labels[1] \o "'," \o QuotedLabels(Tail(labels))

format_type_enum(context) ==
  "enum(" \o QuotedLabels(context.labels) \o ")" \o _format_charset(context)

format_type_set(context) ==
  "set(" \o QuotedLabels(context.labels) \o ")" \o _format_charset(context)

format_type_tiny_blob(context) ==
  IF context.charset.name = "binary" THEN "tinyblob"
  ELSE "tinytext" \o _format_charset(context)

format_type_blob(context) ==
  IF context.charset.name = "binary" THEN "blob"
  ELSE "text" \o _format_charset(context)

format_type_medium_blob(context) ==
  IF context.charset.name = "binary" THEN "mediumblob"
  ELSE "mediumtext" \o _format_charset(context)

format_type_long_blob(context) ==
  IF context.charset.name = "binary" THEN "longblob"
  ELSE "longtext" \o _format_charset(context)

format_type_bit(context) == "bit(" \o ToString(context.length) \o ")"

format_type_time2(context) ==
  LET scale == context.length - MAX_TIME_WIDTH - 1
  IN  IF scale > 0 THEN "time(" \o ToString(scale) \o ")" ELSE "time"

format_type_time(context) == format_type_time2(context)

format_type_timestamp2(context) ==
  LET scale == context.length - MAX_DATETIME_WIDTH - 1
  IN  IF scale > 0 THEN "timestamp(" \o ToString(scale) \o ")" ELSE "timestamp"

format_type_timestamp(context) == format_type_timestamp2(context)

format_type_year(context) == "year(" \o ToString(context.length) \o ")"

format_type_newdate(context) == "date"

format_type_date(context) == format_type_newdate(context)

format_type_datetime2(context) ==
  LET scale == context.length - MAX_DATETIME_WIDTH - 1
  IN  IF scale > 0 THEN "datetime(" \o ToString(scale) \o ")" ELSE "datetime"

format_type_datetime(context) == format_type_datetime2(context)

format_type_geometry(context) == context.subtype_code

\* the type names with a format_type_<name> routine in the module
FormatNames ==
  {"tiny", "short", "int24", "long", "longlong", "newdecimal", "decimal",
   "float", "double", "string", "varchar", "var_string", "enum", "set",
   "tiny_blob", "blob", "medium_blob", "long_blob", "bit", "time2", "time",
   "timestamp2", "timestamp", "year", "newdate", "date", "datetime2",
   "datetime", "geometry"}

\* globals()['format_type_' + name](context)
FormatDispatch(context) ==
  CASE context.type_code = "tiny" -> format_type_tiny(context)
    [] context.type_code = "short" -> format_type_short(context)
    [] context.type_code = "int24" -> format_type_int24(context)
    [] context.type_code = "long" -> format_type_long(context)
    [] context.type_code = "longlong" -> format_type_longlong(context)
    [] context.type_code = "newdecimal" -> format_type_newdecimal(context)
    [] context.type_code = "decimal" -> format_type_decimal(context)
    [] context.type_code = "float" -> format_type_float(context)
    [] context.type_code = "double" -> format_type_double(context)
    [] context.type_code = "string" -> format_type_string(context)
    [] context.type_code = "varchar" -> format_type_varchar(context)
    [] context.type_code = "var_string" -> format_type_var_string(context)
    [] context.type_code = "enum" -> format_type_enum(context)
    [] context.type_code = "set" -> format_type_set(context)
    [] context.type_code = "tiny_blob" -> format_type_tiny_blob(context)
    [] context.type_code = "blob" -> format_type_blob(context)
    [] context.type_code = "medium_blob" -> format_type_medium_blob(context)
    [] context.type_code = "long_blob" -> format_type_long_blob(context)
    [] context.type_code = "bit" -> format_type_bit(context)
    [] context.type_code = "time2" -> format_type_time2(context)
    [] context.type_code = "time" -> format_type_time(context)
    [] context.type_code = "timestamp2" -> format_type_timestamp2(context)
    [] context.type_code = "timestamp" -> format_type_timestamp(context)
    [] context.type_code = "year" -> format_type_year(context)
    [] context.type_code = "newdate" -> format_type_newdate(context)
    [] context.type_code = "date" -> format_type_date(context)
    [] context.type_code = "datetime2" -> format_type_datetime2(context)
    [] context.type_code = "datetime" -> format_type_datetime(context)
    [] context.type_code = "geometry" -> format_type_geometry(context)

\* a mutation of format_type: the two suffixes in the other order
format_type_swapped(context) ==
  IF context.type_code \notin FormatNames THEN FragRaise("LookupError")
  ELSE Frag(FormatDispatch(context)
              \o (IF context.unireg_check = "NEXT_NUMBER"
                  THEN " AUTO_INCREMENT" ELSE "")
              \o (IF ~HasFlag(context.flags, FLAG_MAYBE_NULL)
                  THEN " NOT NULL" ELSE ""))

\* format_type(context): the routine's fragment, then ' NOT NULL', then
\* ' AUTO_INCREMENT'; LookupError for a type without a routine
format_type(context) ==
  IF context.type_code \notin FormatNames THEN FragRaise("LookupError")
  ELSE Frag(FormatDispatch(context)
              \o (IF ~HasFlag(context.flags, FLAG_MAYBE_NULL)
                  THEN " NOT NULL" ELSE "")
              \o (IF context.unireg_check = "NEXT_NUMBER"
                  THEN " AUTO_INCREMENT" ELSE ""))

(* ------------------ format_type on a column's metadata ----------------- *)
\* character sets: the table's own, one that differs from it and is not
\* its default collation, and binary
Charsets ==
  {[name |-> "latin1", maxlen |-> 1, is_default |-> TRUE,
    collation |-> "latin1_swedish_ci"],
   [name |-> "utf8", maxlen |-> 3, is_default |-> FALSE,
    collation |-> "utf8_bin"],
   [name |-> "binary", maxlen |-> 1, is_default |-> TRUE,
    collation |-> "binary"]}

\* every type with a formatting routine and two without
FormatTypes == FormatNames \cup {"null", "json"}

FormatLengths == {0, 1, 6, 11, 14, 23}

\* the scale field of the flag word
FormatScales == {0, 1, 5, 30, 31}

\* signed or not, zerofill or not, every scale, nullable or not
FormatFlags ==
  {d + z + sc * (2 ^ DEC_SHIFT) + nl :
     d \in {0, FLAG_DECIMAL}, z \in {0, FLAG_ZEROFILL},
     sc \in FormatScales, nl \in {0, FLAG_MAYBE_NULL}}

FormatContexts ==
  [type_code : FormatTypes, length : FormatLengths, flags : FormatFlags,
   labels : {Labels3},
   unireg_check : {"NONE", "NEXT_NUMBER", "TIMESTAMP_DN_FIELD"},
   charset : Charsets, table_charset : {"latin1"},
   subtype_code : {"point"}]

FormatInit ==
  /\ stored = NoValue
  /\ null_map = <<170, 1>>
  /\ defaults = Cyc(<<2, 0, 1, 3>>)
  /\ null_bit \in StartBits
  /\ pos = 1
  /\ ncols = 0
  /\ call = NoCall
  /\ first_bit = null_bit
  /\ counted = 0

\* format_type(context): it is given the context alone and assigns to
\* none of its attributes
FormatType ==
  /\ ncols = 0
  /\ \E context \in FormatContexts :
       LET r == format_type(context)
       IN  call' = [col |-> context, out |-> r.out, text |-> r.text,
                    dispatch |-> context.type_code \in FormatNames,
                    routine |-> "format_type",
                    null_bit |-> null_bit, pos |-> pos]
  /\ ncols' = ncols + 1
  /\ UNCHANGED <<null_map, defaults, null_bit, pos, stored, first_bit, counted>>

FormatNext == FormatType

SpecFormat == FormatInit /\ [][FormatNext]_vars

(* ------------------- SET columns over every bitmask -------------------- *)
\* label sequences of a SET: the three of the example and s1..sn at the
\* label counts where the width of the bitmask changes
SetLabels ==
  {Labels3} \cup {[i \in 1..n |-> "s" \o ToString(i)] :
                    n \in {1, 8, 9, 16, 17, 24, 25, 32, 33, 64}}

\* every value of the first byte; the even bytes h, the other bytes
\* varying with both
SetBuffers ==
  {[i \in 1..8 |-> IF i = 1 THEN b
                   ELSE IF i % 2 = 0 THEN h ELSE (b + h * i) % 256] :
     b \in 0..255, h \in {0, 1, 128, 255}}

SetInit ==
  /\ stored = NoValue
  /\ null_map \in NullMaps
  /\ defaults \in SetBuffers
  /\ null_bit = 0
  /\ pos = 0
  /\ ncols = 0
  /\ call = NoCall
  /\ first_bit = null_bit
  /\ counted = 0

DecodeSet ==
  /\ ncols = 0
  /\ UnpackDefault({Column(TV("set", Len(labels), 0, labels, "latin1"),
                           "NONE", FALSE, FALSE) : labels \in SetLabels})

SetNext == DecodeSet

SpecSet == SetInit /\ [][SetNext]_vars

(* ------------- the writer's side of the NEWDECIMAL layout -------------- *)
\* a decimal value: [precision, scale, neg, int, frac], int and frac the
\* digit sequences of precision - scale and of scale digits
RECURSIVE Num(_)
\* the number a digit sequence of at most 9 digits spells
Num(digits) ==
  IF Len(digits) = 0 THEN 0
  ELSE Num(SubSeq(digits, 1, Len(digits) - 1)) * 10 + digits[Len(digits)]

RECURSIVE DigitsText(_)
DigitsText(digits) ==
  IF Len(digits) = 0 THEN ""
  ELSE ToString(Head(digits)) \o DigitsText(Tail(digits))

RECURSIVE ToBytes(_, _)
\* n in w big-endian bytes
ToBytes(n, w) ==
  IF w = 0 THEN <<>> ELSE ToBytes(n \div 256, w - 1) \o <<n % 256>>

RECURSIVE FullGroups(_)
\* a digit sequence whose length is a multiple of 9, 4 bytes per 9 digits
FullGroups(digits) ==
  IF Len(digits) = 0 THEN <<>>
  ELSE ToBytes(Num(SubSeq(digits, 1, 9)), 4)
         \o FullGroups(SubSeq(digits, 10, Len(digits)))

\* the NEWDECIMAL bytes of a value: the integer digits as a partial leading
\* group and full groups, the fraction digits as full groups and a partial
\* trailing group, every byte complemented when negative, then the sign
\* bit of the first byte flipped
EncodeNewDecimal(v) ==
  LET lead == Len(v.int) % 9
      trail == Len(v.frac) % 9
      plain ==
        ToBytes(Num(SubSeq(v.int, 1, lead)), DIGITS_TO_BYTES[lead + 1])
          \o FullGroups(SubSeq(v.int, lead + 1, Len(v.int)))
          \o FullGroups(SubSeq(v.frac, 1, Len(v.frac) - trail))
          \o ToBytes(Num(SubSeq(v.frac, Len(v.frac) - trail + 1, Len(v.frac))),
                     DIGITS_TO_BYTES[trail + 1])
      signed == [k \in DOMAIN plain |-> IF v.neg THEN 255 - plain[k] ELSE plain[k]]
  IN  [k \in DOMAIN signed |->
         IF k = 1 THEN (signed[k] + 128) % 256 ELSE signed[k]]

\* the value as text: sign, integer part without leading zeros but never
\* empty, and with a scale '.' and exactly scale fraction digits
DecimalText(v) ==
  LET int == LStrip0(DigitsText(v.int))
  IN  "'" \o (IF v.neg THEN "-" ELSE "") \o (IF int = "" THEN "0" ELSE int)
        \o (IF v.scale > 0 THEN "." \o DigitsText(v.frac) ELSE "") \o "'"

\* the NEWDECIMAL column of a precision and scale: length counts the sign
\* and the decimal point, the scale sits in the flag word
DecimalColumn(precision, scale) ==
  Column(TV("newdecimal", precision + 1 + (IF scale > 0 THEN 1 ELSE 0),
            scale * (2 ^ DEC_SHIFT), <<>>, "latin1"),
         "NONE", FALSE, FALSE)

\* <<precision, scale>>: one group each side, several groups, partial
\* leading and trailing groups, no integer digits
DecimalShapes ==
  {<<2, 1>>, <<9, 0>>, <<18, 9>>, <<10, 0>>, <<12, 2>>, <<5, 5>>,
   <<11, 11>>, <<20, 11>>}

\* digit sequences of length n: zeros, nines, 1 then zeros, zeros then 5,
\* 1 2 3 ...
DigitStrings(n) ==
  {[i \in 1..n |-> 0], [i \in 1..n |-> 9],
   [i \in 1..n |-> IF i = 1 THEN 1 ELSE 0],
   [i \in 1..n |-> IF i = n THEN 5 ELSE 0],
   [i \in 1..n |-> i % 10]}

\* no negative zero
DecimalValues ==
  {v \in UNION {[precision : {sh[1]}, scale : {sh[2]}, neg : BOOLEAN,
                 int : DigitStrings(sh[1] - sh[2]),
                 frac : DigitStrings(sh[2])] : sh \in DecimalShapes} :
     v.neg => (\E k \in DOMAIN v.int : v.int[k] # 0)
                \/ (\E k \in DOMAIN v.frac : v.frac[k] # 0)}

DecimalInit ==
  /\ \E v \in DecimalValues :
       /\ defaults = EncodeNewDecimal(v)
       /\ stored = [col |-> DecimalColumn(v.precision, v.scale),
                    text |-> DecimalText(v)]
  /\ null_map \in NullMaps
  /\ null_bit = 0
  /\ pos = 0
  /\ ncols = 0
  /\ call = NoCall
  /\ first_bit = null_bit
  /\ counted = 0

\* the stored value's column is decoded from the bytes that encode it
DecodeStored ==
  /\ ncols = 0
  /\ UnpackDefault({stored.col})

DecimalNext == DecodeStored

SpecDecimal == DecimalInit /\ [][DecimalNext]_vars

(* ---------------- the writer's side of the TIME2 layout ---------------- *)
\* a time: [neg, hour, minute, second, scale, frac], frac in units of
\* 10^-scale.  3 big-endian bytes, the top bit set for a time that is not
\* negative, below it hour << 12 | minute << 6 | second, a negative time
\* as the one's complement; then DIGITS_TO_BYTES[scale] fraction bytes,
\* negated for a negative time
EncodeTime2(t) ==
  LET value == t.hour * 4096 + t.minute * 64 + t.second
      width == DIGITS_TO_BYTES[t.scale + 1]
  IN  ToBytes(IF t.neg THEN 8388607 - value ELSE 8388608 + value, 3)
        \o ToBytes(IF t.neg THEN ((256 ^ width) - t.frac) % (256 ^ width)
                   ELSE t.frac, width)

\* '[-]HH:MM:SS[.fraction]'
Time2Text(t) ==
  "'" \o (IF t.neg THEN "-" ELSE "")
    \o ZFill(ToString(t.hour), 2) \o ":" \o ZFill(ToString(t.minute), 2)
    \o ":" \o ZFill(ToString(t.second), 2)
    \o (IF t.scale > 0 THEN "." \o ZFill(ToString(t.frac), t.scale) ELSE "")
    \o "'"

Time2Column(scale) ==
  Column(T0("time2", MAX_TIME_WIDTH + 1 + scale), "NONE", FALSE, FALSE)

\* the extremes of every field, at scales 0, 3 and 6; no negative zero
Time2Values ==
  {t \in [neg : BOOLEAN, hour : {0, 1, 838}, minute : {0, 59},
          second : {0, 59}, scale : {0, 3, 6}, frac : {0, 1, 999, 999999}] :
     /\ t.frac < 10 ^ t.scale
     /\ t.neg => (t.hour + t.minute + t.second + t.frac > 0)}

Time2Init ==
  /\ \E t \in Time2Values :
       /\ defaults = EncodeTime2(t)
       /\ stored = [col |-> Time2Column(t.scale), text |-> Time2Text(t)]
  /\ null_map \in NullMaps
  /\ null_bit = 0
  /\ pos = 0
  /\ ncols = 0
  /\ call = NoCall
  /\ first_bit = null_bit
  /\ counted = 0

Time2Next == DecodeStored

SpecTime2 == Time2Init /\ [][Time2Next]_vars

(* ============================== claims ================================= *)
\* an unpack_default call has been made: call holds it
Called == ncols > 0

Nullable(c) == HasFlag(c.flags, FLAG_MAYBE_NULL)

NoStoredDefault(c) == HasFlag(c.flags, FLAG_NO_DEFAULT)

\* bytes by which the last call moved the default-buffer cursor
Consumed == pos - call.pos

\* the bit of null map m at position k: byte k // 8, bit k % 8 counted
\* from the least significant bit
MapBit(m, k) == (m[(k \div 8) + 1] \div (2 ^ (k % 8))) % 2 = 1

\* C1: every unpack_default call on a nullable column leaves null_bit
\* exactly 1 above its value before the call, whatever the outcome, the
\* other flags and unireg_check; on a non-nullable column null_bit is
\* unchanged; null_bit never decreases.
C1_NullBitPlusOnePerNullable ==
  Called =>
    /\ Nullable(call.col) => null_bit = call.null_bit + 1
    /\ ~Nullable(call.col) => null_bit = call.null_bit
    /\ null_bit >= call.null_bit

\* C2: a column with the no-stored-default flag, or auto-increment
\* unireg_check, or the blob marker, gets 'no default' (None), never 'NULL'
\* or a literal, and the default-buffer cursor stays where it was; for the
\* blob marker with the null bit set and with it clear.
C2_NoDefaultKeepsBufferCursor ==
  (Called /\ (\/ NoStoredDefault(call.col)
              \/ call.col.unireg_check \in {"NEXT_NUMBER", "BLOB_FIELD"}))
    => (call.out = "None" /\ pos = call.pos)

\* C2's case: a nullable blob-marked column whose null bit is set
C2_Witness ==
  /\ Called
  /\ call.col.unireg_check = "BLOB_FIELD"
  /\ ~NoStoredDefault(call.col)
  /\ Nullable(call.col)
  /\ MapBit(null_map, call.null_bit)
  /\ call.out = "None"
  /\ null_bit = call.null_bit + 1

\* the outcome C3 speaks of: the literal NULL, no routine called, the
\* default-buffer cursor unchanged
C3_IsNull ==
  /\ call.out = "value"
  /\ call.text = "NULL"
  /\ ~call.dispatch
  /\ call.routine = ""
  /\ pos = call.pos

\* C3 as stated: every nullable column whose bit of null_map at null_bit
\* is set and whose unireg_check is not the blob marker gets exactly NULL,
\* with no per-type routine called and the buffer cursor unchanged.
C3_Original ==
  (/\ Called
   /\ Nullable(call.col)
   /\ MapBit(null_map, call.null_bit)
   /\ call.col.unireg_check # "BLOB_FIELD")
    => C3_IsNull

\* C3 as amended: the same, for the columns that have neither the
\* no-stored-default flag nor auto-increment unireg_check (those return
\* 'no default' before the null map is read).
C3_NullBitGivesNull ==
  (/\ Called
   /\ Nullable(call.col)
   /\ MapBit(null_map, call.null_bit)
   /\ call.col.unireg_check \notin {"BLOB_FIELD", "NEXT_NUMBER"}
   /\ ~NoStoredDefault(call.col))
    => C3_IsNull

\* C3's case: a set bit in the second byte of the null map
C3_Witness ==
  /\ Called
  /\ Nullable(call.col)
  /\ ~NoStoredDefault(call.col)
  /\ call.col.unireg_check = "NONE"
  /\ call.null_bit >= 8
  /\ MapBit(null_map, call.null_bit)
  /\ call.text = "NULL"

\* C4: for a column that reaches per-type dispatch and decodes without
\* error, the bytes consumed are fixed by the column's metadata alone: a
\* decode of the same column at the same cursor over a buffer with other
\* contents, when it too succeeds, consumes the same number of bytes.
C4_ConsumptionFixedByMetadata ==
  (Called /\ call.dispatch /\ call.out = "value") =>
    \A buf \in Buffers :
      LET r == unpack_default(buf, call.pos, call.col, null_map, call.null_bit)
      IN  (r.dispatch /\ r.out = "value" /\ call.pos + r.n <= Len(buf))
            => r.n = Consumed

\* C5: unpack_type_enum reads a 1-byte ordinal below 256 labels and a
\* 2-byte ordinal otherwise; with labels present, ordinal 0 gives '' and
\* ordinal k in 1..count gives the quoted k-th label.
C5_EnumOrdinal ==
  (Called /\ call.routine = "enum" /\ Len(call.col.labels) > 0) =>
    LET labels == call.col.labels
        width == IF Len(labels) < 256 THEN 1 ELSE 2
        k == ReaderUInt(Read(defaults, call.pos, width))
    IN  /\ Consumed = width
        /\ k = 0 => call.text = "''"
        /\ (1 <= k /\ k <= Len(labels)) => call.text = "'" \o labels[k] \o "'"

\* C6: NEWDECIMAL round trip: for every precision >= scale >= 0, every
\* digit string of that shape and both signs, decoding the NEWDECIMAL
\* bytes of the value with unpack_type_newdecimal gives the value back:
\* integer part without leading zeros but never empty, '.', and exactly
\* scale fraction digits.
C6_NewDecimalRoundTrip ==
  (Called /\ stored.col.type_code = "newdecimal")
    => (call.out = "value" /\ call.text = stored.text)

\* C7: TIME2 round trip: for hours 0..838, minutes and seconds 0..59, both
\* signs and scales 0, 3 and 6, decoding the TIME2 bytes of the time with
\* unpack_type_time2 gives '[-]HH:MM:SS[.fraction]' with the same fields.
C7_Time2RoundTrip ==
  (Called /\ stored.col.type_code = "time2")
    => (call.out = "value" /\ call.text = stored.text)

\* the types whose routine signals not-implemented
C8_NotImplemented ==
  {"tiny_blob", "blob", "medium_blob", "long_blob", "geometry", "date", "null"}

\* C8: a column that reaches dispatch and has no unpack routine, or whose
\* routine signals not-implemented (blob family, geometry, pre-modern
\* DATE, NULL type), ends unpack_default in a LookupError; never None or
\* a literal.
C8_DispatchFailureIsLookupError ==
  (/\ Called
   /\ call.dispatch
   /\ (\/ call.col.type_code \notin UnpackNames
       \/ call.col.type_code \in C8_NotImplemented))
    => (call.out = "raise" /\ call.text = "LookupError")

\* the fractional-second scale of a modern temporal column
C9_Scale(c) ==
  c.length - (IF c.type_code = "time2" THEN MAX_TIME_WIDTH
              ELSE MAX_DATETIME_WIDTH) - 1

\* bytes before the fraction: 3 (TIME2), 5 (DATETIME2), 4 (TIMESTAMP2)
C9_Base(c) ==
  IF c.type_code = "time2" THEN 3
  ELSE IF c.type_code = "datetime2" THEN 5 ELSE 4

\* C9: unpack_type_time2, unpack_type_datetime2 and unpack_type_timestamp2
\* fail, with no literal, whenever the derived scale is above 6; only
\* scales 0..6 map to a fraction width, by the table {0,1,1,2,2,3,3}.
C9_ScaleAboveSixFails ==
  (/\ Called
   /\ call.dispatch
   /\ call.col.type_code \in {"time2", "datetime2", "timestamp2"})
    => LET scale == C9_Scale(call.col)
       IN  /\ scale > 6 => call.out = "raise"
           /\ call.out = "value" =>
                /\ scale <= 6
                /\ Consumed = C9_Base(call.col)
                     + (IF scale > 0 THEN <<1, 1, 2, 2, 3, 3>>[scale] ELSE 0)

\* CURRENT_TIMESTAMP's suffix: (scale) when the scale is positive
C10_Suffix(c) ==
  LET scale == c.length - MAX_DATETIME_WIDTH - 1
  IN  IF scale > 0 THEN "(" \o ToString(scale) \o ")" ELSE ""

\* C10: for a TIMESTAMP or TIMESTAMP2 column that reaches dispatch the
\* bytes consumed (4 epoch bytes plus the fraction bytes of the scale) are
\* the same for every unireg_check; unireg_check decides the text only:
\* DN CURRENT_TIMESTAMP[(scale)], UN the literal followed by ON UPDATE
\* CURRENT_TIMESTAMP[(scale)], DNUN both symbolic, else the plain literal.
C10_UniregChangesTextOnly ==
  (Called /\ call.dispatch /\ call.col.type_code \in TimestampTypes) =>
    LET c == call.col
        scale == c.length - MAX_DATETIME_WIDTH - 1
        sfx == C10_Suffix(c)
        alt(u) == unpack_default(defaults, call.pos,
                                 [c EXCEPT !.unireg_check = u],
                                 null_map, call.null_bit)
        plain == alt("NONE").text
    IN  /\ \A u \in Utypes \ {"NEXT_NUMBER", "BLOB_FIELD"} :
             alt(u).n = Consumed /\ alt(u).out = call.out
        /\ call.out = "value" =>
             /\ Consumed = 4 + (IF scale > 0 THEN <<1, 1, 2, 2, 3, 3>>[scale] ELSE 0)
             /\ SubSeq(plain, 1, 1) = "'" /\ SubSeq(plain, Len(plain), Len(plain)) = "'"
             /\ call.text =
                  CASE c.unireg_check = "TIMESTAMP_DN_FIELD" ->
                         "CURRENT_TIMESTAMP" \o sfx
                    [] c.unireg_check = "TIMESTAMP_UN_FIELD" ->
                         plain \o " ON UPDATE CURRENT_TIMESTAMP" \o sfx
                    [] c.unireg_check = "TIMESTAMP_DNUN_FIELD" ->
                         "CURRENT_TIMESTAMP" \o sfx
                           \o " ON UPDATE CURRENT_TIMESTAMP" \o sfx
                    [] OTHER -> plain

\* C10's case: a TIMESTAMP2(3) column marked ON UPDATE, 4 + 2 bytes read
C10_Witness ==
  /\ Called
  /\ call.dispatch
  /\ call.col.type_code = "timestamp2"
  /\ call.col.unireg_check = "TIMESTAMP_UN_FIELD"
  /\ call.col.length = 23
  /\ call.out = "value"
  /\ Consumed = 6

\* C11: for every length and flags of a decimal column, the scale
\* (flags >> DEC_SHIFT) & MAX_DEC and the precision (length, minus 1 if
\* the scale is not 0, minus 1 again if the result is not 0) that
\* format_type_newdecimal prints and unpack_type_newdecimal uses satisfy
\* precision >= scale >= 0.
C11_PrecisionAtLeastScale ==
  (/\ Called
   /\ call.routine = "format_type"
   /\ call.col.type_code \in {"newdecimal", "decimal"}) =>
    LET scale == f_decimals(call.col.flags)
        precision == DecimalPrecision(call.col.length, scale)
    IN  /\ SubSeq(call.text, 1, Len(format_type_newdecimal(call.col)))
             = "decimal(" \o ToString(precision) \o "," \o ToString(scale) \o ")"
        /\ precision >= scale
        /\ scale >= 0

\* the labels of the last call whose bit (label i at bit i - 1 of the
\* bytes at the cursor, least significant byte first) is set, in order
C12_Selected ==
  LET labels == call.col.labels
      idx == [i \in 1..Len(labels) |-> i]
      on(i) == (i - 1) \div 8 < Consumed
                 /\ (defaults[call.pos + ((i - 1) \div 8) + 1]
                       \div (2 ^ ((i - 1) % 8))) % 2 = 1
      chosen == SelectSeq(idx, on)
  IN  [k \in 1..Len(chosen) |-> labels[chosen[k]]]

\* C12: unpack_type_set reads ceil(label count / 8) bytes when that is 1,
\* 2, 3 or 4 and exactly 8 bytes when the labels need more than 4; the
\* result is the quoted comma join of exactly the labels whose bit is
\* set, in ascending bit order.
C12_SetBitmask ==
  (Called /\ call.routine = "set") =>
    LET need == (Len(call.col.labels) + 7) \div 8
    IN  /\ call.out = "value"
        /\ Consumed = (IF need > 4 THEN 8 ELSE need)
        /\ call.text = "'" \o Join(C12_Selected) \o "'"

\* C12's case: nine labels, a 2-byte bitmask with bits 0 and 8 set
C12_Witness ==
  /\ Called
  /\ call.routine = "set"
  /\ Len(call.col.labels) = 9
  /\ Consumed = 2
  /\ call.text = "'s1,s9'"

\* C13: for every column whose type has a formatting routine, format_type
\* returns the routine's fragment, then ' NOT NULL' exactly when the
\* column is not nullable, then ' AUTO_INCREMENT' exactly when
\* unireg_check is NEXT_NUMBER; the fragment does not depend on either;
\* neither the null_bit cursor nor the default-buffer cursor moves.
C13_FormatSuffixes ==
  (/\ Called
   /\ call.routine = "format_type"
   /\ call.col.type_code \in FormatNames) =>
    LET c == call.col
        plain == [c EXCEPT !.unireg_check = "NONE",
                           !.flags = IF Nullable(c) THEN c.flags
                                     ELSE c.flags + FLAG_MAYBE_NULL]
    IN  /\ call.out = "value"
        /\ format_type(plain).text = FormatDispatch(c)
        /\ call.text = FormatDispatch(c)
             \o (IF Nullable(c) THEN "" ELSE " NOT NULL")
             \o (IF c.unireg_check = "NEXT_NUMBER" THEN " AUTO_INCREMENT" ELSE "")
        /\ null_bit = call.null_bit
        /\ pos = call.pos

\* C13's case: a signed INT(11) that is not nullable and auto-increment
C13_Witness ==
  /\ Called
  /\ call.routine = "format_type"
  /\ call.text = "int(11) NOT NULL AUTO_INCREMENT"

\* C14: after any sequence of unpack_default calls over the columns of a
\* row, null_bit is its value before the first call plus the number of
\* processed columns that are nullable and have neither the
\* no-stored-default flag nor auto-increment unireg_check; a call
\* short-circuited by either leaves null_bit as it was, and a nullable
\* column whose dispatch raises has had null_bit advanced by 1.
C14_NullBitCountsDecodedNullable ==
  /\ null_bit = first_bit + counted
  /\ Called =>
       /\ (NoStoredDefault(call.col) \/ call.col.unireg_check = "NEXT_NUMBER")
            => (null_bit = call.null_bit /\ call.out = "None")
       /\ (Nullable(call.col) /\ call.dispatch /\ call.out = "raise")
            => null_bit = call.null_bit + 1

\* C14's case: the second call of a row, on a nullable column whose
\* dispatch raises, after a column that did not advance null_bit
C14_Witness ==
  /\ ncols = 2
  /\ counted = 1
  /\ Nullable(call.col)
  /\ call.dispatch
  /\ call.out = "raise"
  /\ null_bit = first_bit + 1

====
